---- MODULE Spec2Model ----
(***************************************************************************)
(* AlphaDSSP: per-residue exclusion masks from DSSP codes and pLDDT, and   *)
(* the fusion of overlapping AlphaFold fragments into one accession-level  *)
(* mask (src/alphadssp/alphadssp.py, src/main.py).                         *)
(*                                                                         *)
(* Three specifications share this module:                                 *)
(*   SpecFuse  one call of fuse_accession(args, stride, trim_factor)       *)
(*   SpecDssp  one call of run_dssp on one archive entry                   *)
(*   Spec      generate_dssp: run_dssp_parallel, then parse_fragments      *)
(* numpy arrays are sequences (index i of the array is element i+1).       *)
(***************************************************************************)
EXTENDS Integers, Sequences, FiniteSets, TLC

\* ------------------------------------------------------------------ bounds
MaxLen == 2        \* residues of one fragment handed to fuse_accession
MaxIndex == 3      \* largest fragment number F<n> of a group
MaxStride == 2     \* largest stride tried
MaxEntries == 2    \* entries of one fragment group
MaxResidues == 2   \* DSSP codes / pLDDT values of one model given to run_dssp
MaxModels == 3     \* structures in the archive
MaxFragments == 3  \* largest fragment number of an archive member
Processes == 2     \* pool workers, os.cpu_count() - 1

\* --------------------------------------------------------------- variables
VARIABLES
    \* fuse_accession
    args,                              \* <<accession, entries>>
    stride, trim_factor,               \* keyword arguments
    fpc,                               \* position in fuse_accession
    end_res,
    total_high_confidence_forbidden,
    total_dssp_codes,
    trim_amount,
    done_entries,                      \* iterations of the loop at line 129 begun
    locals,                            \* per iteration: the indices and slices computed
    output,
    \* run_dssp
    entry_tuple, plddt_thres, dpc, dssp_output, main_excluded,
    \* generate_dssp
    archive,                           \* what stream_structures yields, in order
    submitted,                         \* entries the pool has taken from the stream
    running,                           \* entries being processed by a worker
    outqueue,                          \* finished outputs imap_unordered has not yielded yet
    excluded_results,                  \* dict, as its items in insertion order
    pc,
    unfragmented_keys, fragmented_keys,
    accession_results, chunked_entries,
    exception

fuseVars == <<args, stride, trim_factor, fpc, end_res, total_high_confidence_forbidden,
              total_dssp_codes, trim_amount, done_entries, locals, output>>
dsspVars == <<entry_tuple, plddt_thres, dpc, dssp_output, main_excluded>>
pipeVars == <<archive, submitted, running, outqueue, excluded_results, pc,
              unfragmented_keys, fragmented_keys, accession_results, chunked_entries,
              exception>>
vars == <<fuseVars, dsspVars, pipeVars>>

\* ----------------------------------------------------------- Python, numpy
Max(S) == CHOOSE x \in S : \A y \in S : y <= x

Range(s) == {s[i] : i \in DOMAIN s}

\* A slice bound i of a sequence of length n, as Python normalises it.
PyIdx(i, n) ==
    IF i < 0 THEN (IF i + n < 0 THEN 0 ELSE i + n)
    ELSE (IF i > n THEN n ELSE i)

\* seq[start:stop]; the kept indices are lo .. hi-1 (0-based), none when hi <= lo.
SliceLo(start, n) == PyIdx(start, n)
SliceHi(stop, n) == PyIdx(stop, n)
SliceLen(start, stop, n) ==
    IF SliceHi(stop, n) > SliceLo(start, n) THEN SliceHi(stop, n) - SliceLo(start, n) ELSE 0
PySlice(seq, start, stop) ==
    SubSeq(seq, SliceLo(start, Len(seq)) + 1, SliceHi(stop, Len(seq)))

\* Shapes (a,) and (b,) broadcast to one shape, or not at all.
Broadcastable(a, b) == a = b \/ a = 1 \/ b = 1
BroadcastLen(a, b) == IF a = 1 THEN b ELSE a
At(seq, i) == IF Len(seq) = 1 THEN seq[1] ELSE seq[i]

\* (a changed np_logical_and: the fragment's values written over the previous ones)
np_overwrite(a, b) ==
    [i \in 1..BroadcastLen(Len(a), Len(b)) |-> At(a, i)]

\* np.logical_and of two 1-d arrays: elementwise after broadcasting; it raises
\* ValueError when the shapes do not broadcast (Broadcastable is then false).
np_logical_and(a, b) ==
    [i \in 1..BroadcastLen(Len(a), Len(b)) |-> At(a, i) /\ At(b, i)]

\* total[start:stop] = value: value must broadcast to the slice's shape.
CanAssign(total, start, stop, value) ==
    LET n == SliceLen(start, stop, Len(total))
    IN  Len(value) = n \/ Len(value) = 1
AssignSlice(total, start, stop, value) ==
    LET lo == SliceLo(start, Len(total))
        n == SliceLen(start, stop, Len(total))
    IN  [i \in 1..Len(total) |->
            IF i > lo /\ i <= lo + n THEN At(value, i - lo) ELSE total[i]]

\* -------------------------------------------------------------- base names
\* A base name "AF-<accession>-F<n>-model_v4" is held as its "-"-separated
\* tokens, the fragment token as its characters: <<"AF", acc, <<"F", n>>, "model_v4">>.
BaseName(acc, n) == <<"AF", acc, <<"F", n>>, "model_v4">>
\* key.split("-")[1]
AccessionOf(key) == key[2]
\* int(base_name.split("-")[2][1:])
ModelNumber(base_name) == Head(Tail(base_name[3]))

\* ------------------------------------------------------------ fuse_accession
\* The keyword argument trim_factor: the int 0, the int 1, or the float 0.5 (the
\* default), held as a count of halves and whether the Python value is a float.
TrimFactors == {[halves |-> 0, float |-> FALSE],
                [halves |-> 2, float |-> FALSE],
                [halves |-> 1, float |-> TRUE]}

\* stride * trim_factor: an int times a float is a float, an int times an int an int.
Times(s, tf) == [halves |-> s * tf.halves, float |-> tf.float]
\* The value of an int trim_amount.
IntOf(ta) == ta.halves \div 2

EntryName(entry) == entry[1]
EntryMask(entry) == entry[2][1]
EntryCodes(entry) == entry[2][2]

\* Lines 116-123: the largest 1-based ending residue over the entries.
EntryEndingResidue(entry, s) ==
    LET model_number == ModelNumber(EntryName(entry))
        starting_residue == s * (model_number - 1) + 1
    IN  starting_residue + Len(EntryMask(entry)) - 1
EndRes(entries, s) == Max({EntryEndingResidue(entries[k], s) : k \in DOMAIN entries})

\* Lines 126-127: np.full(shape = end_res + 1, fill_value = ...).
NpFull(shape, fill_value) == [i \in 1..shape |-> fill_value]

\* Lines 135-151: the branch taken and the bounds computed for one entry, ta an int.
\* (a changed Branch: the last fragment looked for at the array's length, end_res + 1)
BranchAtArrayLength(starting_idx, ending_idx, E) ==
    IF starting_idx = 0 THEN "first"
    ELSE IF ending_idx = E + 1 THEN "last" ELSE "interior"

Branch(starting_idx, ending_idx, E) ==
    IF starting_idx = 0 THEN "first"
    ELSE IF ending_idx = E THEN "last" ELSE "interior"

EntryLocals(entry, E, s, ta) ==
    LET hcf == EntryMask(entry)
        hcf_len == Len(hcf)
        starting_idx == s * (ModelNumber(EntryName(entry)) - 1)
        ending_idx == starting_idx + hcf_len
        t == IntOf(ta)
        branch == Branch(starting_idx, ending_idx, E)
        \* the slice bounds of high_confidence_forbidden[a:b] (None as 0 / len)
        a == IF branch = "first" THEN 0 ELSE t
        b == IF branch = "last" THEN hcf_len ELSE 0 - t
    IN  [starting_idx |-> starting_idx,
         ending_idx |-> ending_idx,
         branch |-> branch,
         trimmed_starting_idx |-> IF branch = "first" THEN starting_idx ELSE starting_idx + t,
         trimmed_ending_idx |-> IF branch = "last" THEN ending_idx ELSE ending_idx - t,
         kept_lo |-> SliceLo(a, hcf_len),
         kept_len |-> SliceLen(a, b, hcf_len),
         trimmed_hcf_mask |-> PySlice(hcf, a, b),
         trimmed_dssp_codes |-> PySlice(EntryCodes(entry), a, b)]

\* Lines 129-156: one iteration of the loop over the entries. Returns the arrays
\* after it, the exception it raised ("none" when it did not) and its locals.
FuseEntry(total_hcf, total_codes, entry, E, s, ta) ==
    IF ta.float
    THEN \* a float is no slice index: line 140, 145 or 150 raises
         [hcf |-> total_hcf, codes |-> total_codes, exc |-> "TypeError",
          loc |-> [branch |-> "float"]]
    ELSE
    LET loc == EntryLocals(entry, E, s, ta)
        ts == loc.trimmed_starting_idx
        te == loc.trimmed_ending_idx
        previous_total_hcf_snippet == PySlice(total_hcf, ts, te)
        new_total_hcf_snippet ==
            np_logical_and(loc.trimmed_hcf_mask, previous_total_hcf_snippet)
    IN  IF ~Broadcastable(Len(loc.trimmed_hcf_mask), Len(previous_total_hcf_snippet))
        THEN [hcf |-> total_hcf, codes |-> total_codes, exc |-> "ValueError", loc |-> loc]
        ELSE IF ~CanAssign(total_hcf, ts, te, new_total_hcf_snippet)
        THEN [hcf |-> total_hcf, codes |-> total_codes, exc |-> "ValueError", loc |-> loc]
        ELSE IF ~CanAssign(total_codes, ts, te, loc.trimmed_dssp_codes)
        THEN [hcf |-> AssignSlice(total_hcf, ts, te, new_total_hcf_snippet),
              codes |-> total_codes, exc |-> "ValueError", loc |-> loc]
        ELSE [hcf |-> AssignSlice(total_hcf, ts, te, new_total_hcf_snippet),
              codes |-> AssignSlice(total_codes, ts, te, loc.trimmed_dssp_codes),
              exc |-> "none", loc |-> loc]

\* The whole call as a function of its arguments: how it ends, and the mask it returns.
RECURSIVE FuseLoop(_, _, _, _, _, _, _)
FuseLoop(total_hcf, total_codes, entries, k, E, s, ta) ==
    IF k > Len(entries)
    THEN [kind |-> "returned", hcf |-> total_hcf, codes |-> total_codes]
    ELSE LET r == FuseEntry(total_hcf, total_codes, entries[k], E, s, ta)
         IN  IF r.exc # "none"
             THEN [kind |-> "raised", hcf |-> <<>>, codes |-> <<>>]
             ELSE FuseLoop(r.hcf, r.codes, entries, k + 1, E, s, ta)

FuseRun(entries, s, tf) ==
    LET E == EndRes(entries, s)
    IN  FuseLoop(NpFull(E + 1, TRUE), NpFull(E + 1, "-"), entries, 1, E, s, Times(s, tf))

\* Lines 114-128.
FuseStart ==
    /\ fpc = "call"
    /\ end_res' = EndRes(args[2], stride)
    /\ total_high_confidence_forbidden' = NpFull(end_res' + 1, TRUE)
    /\ total_dssp_codes' = NpFull(end_res' + 1, "-")
    /\ trim_amount' = Times(stride, trim_factor)
    /\ fpc' = "loop"
    /\ UNCHANGED <<args, stride, trim_factor, done_entries, locals, output>>
    /\ UNCHANGED <<dsspVars, pipeVars>>

\* Lines 129-156, one entry.
FuseIter ==
    /\ fpc = "loop"
    /\ done_entries < Len(args[2])
    /\ LET r == FuseEntry(total_high_confidence_forbidden, total_dssp_codes,
                          args[2][done_entries + 1], end_res, stride, trim_amount)
       IN  /\ total_high_confidence_forbidden' = r.hcf
           /\ total_dssp_codes' = r.codes
           /\ locals' = Append(locals, r.loc)
           /\ done_entries' = done_entries + 1
           /\ fpc' = IF r.exc = "none" THEN "loop" ELSE r.exc
    /\ UNCHANGED <<args, stride, trim_factor, end_res, trim_amount, output>>
    /\ UNCHANGED <<dsspVars, pipeVars>>

\* Lines 158-161.
FuseReturn ==
    /\ fpc = "loop"
    /\ done_entries = Len(args[2])
    /\ output' = <<args[1], <<total_high_confidence_forbidden, total_dssp_codes>>>>
    /\ fpc' = "returned"
    /\ UNCHANGED <<args, stride, trim_factor, end_res, total_high_confidence_forbidden,
                   total_dssp_codes, trim_amount, done_entries, locals>>
    /\ UNCHANGED <<dsspVars, pipeVars>>

\* The fragment groups tried: 2..MaxEntries entries with distinct fragment numbers
\* 1..MaxIndex (1-based, as AlphaFold names them) in any order, each mask any boolean
\* sequence of 0..MaxLen residues; the code of a flagged residue is "H", of another "-".
BoolSeqs(n) == UNION {[1..l -> BOOLEAN] : l \in 0..n}
CodesOf(mask) == [i \in 1..Len(mask) |-> IF mask[i] THEN "H" ELSE "-"]
Entries ==
    {<<BaseName("P1", n), <<m, CodesOf(m)>>>> : n \in 1..MaxIndex, m \in BoolSeqs(MaxLen)}
Distinct(es) ==
    \A i, j \in DOMAIN es : i # j => ModelNumber(EntryName(es[i])) # ModelNumber(EntryName(es[j]))
Groups == {es \in UNION {[1..k -> Entries] : k \in 2..MaxEntries} : Distinct(es)}

FuseIdle ==
    /\ args = <<>> /\ stride = 0 /\ trim_factor = 0 /\ fpc = "idle" /\ end_res = 0
    /\ total_high_confidence_forbidden = <<>> /\ total_dssp_codes = <<>>
    /\ trim_amount = 0 /\ done_entries = 0 /\ locals = <<>> /\ output = <<>>
DsspIdle ==
    /\ entry_tuple = <<>> /\ plddt_thres = 0 /\ dpc = "idle" /\ dssp_output = <<>>
    /\ main_excluded = <<>>
PipeIdle ==
    /\ archive = <<>> /\ submitted = 0 /\ running = {} /\ outqueue = <<>>
    /\ excluded_results = <<>> /\ pc = "idle"
    /\ unfragmented_keys = <<>> /\ fragmented_keys = <<>>
    /\ accession_results = <<>> /\ chunked_entries = <<>> /\ exception = "none"

InitFuse ==
    /\ args \in {<<"P1", es>> : es \in Groups}
    /\ stride \in 1..MaxStride
    /\ trim_factor \in TrimFactors
    /\ fpc = "call"
    /\ end_res = 0
    /\ total_high_confidence_forbidden = <<>>
    /\ total_dssp_codes = <<>>
    /\ trim_amount = [halves |-> 0, float |-> FALSE]
    /\ done_entries = 0
    /\ locals = <<>>
    /\ output = <<>>
    /\ DsspIdle
    /\ PipeIdle

NextFuse == FuseStart \/ FuseIter \/ FuseReturn

SpecFuse == InitFuse /\ [][NextFuse]_vars

\* ------------------------------------------------------------------ run_dssp
\* The defaults of run_dssp's keyword arguments (line 74).
ForbiddenCodes == {"H", "B", "E", "G", "I", "T"}
PlddtThres == 70

\* An entry is (cif_file, model, base_name, plddt_vals); the model is held as the
\* per-residue codes the DSSP oracle returns for it.
EntryTuple(codes, base_name, plddt_vals) == <<"tmp.cif", codes, base_name, plddt_vals>>

\* np.isin(dssp_codes, forbidden_codes)
np_isin(dssp_codes, forbidden_codes) ==
    [i \in 1..Len(dssp_codes) |-> dssp_codes[i] \in forbidden_codes]
\* np.greater_equal(plddt_vals, plddt_thres)
np_greater_equal(plddt_vals, thres) ==
    [i \in 1..Len(plddt_vals) |-> plddt_vals[i] >= thres]

\* Lines 76-87. np.logical_and raises ValueError when the shapes do not broadcast.
RunDsspRaises(entry) == ~Broadcastable(Len(entry[4]), Len(entry[2]))
RunDsspResult(entry, forbidden_codes, thres) ==
    LET dssp_codes == entry[2]
        forbidden_dssp_mask == np_isin(dssp_codes, forbidden_codes)
        plddt_mask == np_greater_equal(entry[4], thres)
        high_confidence_forbidden == np_logical_and(plddt_mask, forbidden_dssp_mask)
    IN  <<entry[3], <<high_confidence_forbidden, dssp_codes>>>>

\* alphadssp.run_dssp on one entry.
RunDssp ==
    /\ dpc = "call"
    /\ IF RunDsspRaises(entry_tuple)
       THEN dpc' = "ValueError" /\ UNCHANGED dssp_output
       ELSE /\ dssp_output' = RunDsspResult(entry_tuple, ForbiddenCodes, plddt_thres)
            /\ dpc' = "returned"
    /\ UNCHANGED <<entry_tuple, plddt_thres, main_excluded>>
    /\ UNCHANGED <<fuseVars, pipeVars>>

\* main.run_dssp, the body of its loop for one entry (src/main.py lines 81-95):
\* only the mask is stored, under the base name.
MainRunDssp ==
    /\ dpc = "call"
    /\ IF RunDsspRaises(entry_tuple)
       THEN dpc' = "main ValueError" /\ UNCHANGED main_excluded
       ELSE /\ main_excluded' =
                <<entry_tuple[3],
                  np_logical_and(np_greater_equal(entry_tuple[4], plddt_thres),
                                 np_isin(entry_tuple[2], ForbiddenCodes))>>
            /\ dpc' = "main returned"
    /\ UNCHANGED <<entry_tuple, plddt_thres, dssp_output>>
    /\ UNCHANGED <<fuseVars, pipeVars>>

\* The entries tried: 0..MaxResidues DSSP codes, each forbidden ("H", "E") or not
\* ("-"), and 0..MaxResidues pLDDT values just below, at and above the threshold.
DsspCodes == {"H", "E", "-"}
PlddtVals == {PlddtThres - 1, PlddtThres, PlddtThres + 1}
SeqsUpTo(S, n) == UNION {[1..l -> S] : l \in 0..n}

InitDssp ==
    /\ entry_tuple \in {EntryTuple(c, BaseName("P1", 1), v) :
                           c \in SeqsUpTo(DsspCodes, MaxResidues),
                           v \in SeqsUpTo(PlddtVals, MaxResidues)}
    /\ plddt_thres = PlddtThres
    /\ dpc = "call"
    /\ dssp_output = <<>>
    /\ main_excluded = <<>>
    /\ FuseIdle
    /\ PipeIdle

NextDssp == RunDssp \/ MainRunDssp

SpecDssp == InitDssp /\ [][NextDssp]_vars

\* C7: for every model run_dssp processes and every residue index i, the mask is
\* true at i exactly when the code at i is forbidden and the residue's confidence
\* is at least the threshold; the mask is as long as the code string.
C7_MaskIsForbiddenAndConfident ==
    dpc = "returned" =>
        LET mask == dssp_output[2][1]
            codes == dssp_output[2][2]
        IN  /\ Len(mask) = Len(codes)
            /\ \A i \in 1..Len(mask) :
                   /\ i \in DOMAIN entry_tuple[4]
                   /\ mask[i] = (codes[i] \in ForbiddenCodes /\ entry_tuple[4][i] >= plddt_thres)

\* ------------------------------------------------------------- generate_dssp
\* A dict is the sequence of its (key, value) items in insertion order.
DictKeys(d) == [i \in DOMAIN d |-> d[i][1]]
DictHas(d, key) == \E i \in DOMAIN d : d[i][1] = key
DictGet(d, key) == d[CHOOSE i \in DOMAIN d : d[i][1] = key][2]
\* d[key] = value
DictSet(d, key, value) ==
    IF DictHas(d, key)
    THEN [i \in DOMAIN d |-> IF d[i][1] = key THEN <<key, value>> ELSE d[i]]
    ELSE Append(d, <<key, value>>)

\* Lines 163-187. accession_count[accession] is the number of keys of the accession.
AccessionCount(keys, accession) ==
    Cardinality({i \in DOMAIN keys : AccessionOf(keys[i]) = accession})
RECURSIVE CategorizeLoop(_, _, _, _)
CategorizeLoop(keys, i, unfragmented, fragmented) ==
    IF i > Len(keys) THEN <<unfragmented, fragmented>>
    ELSE LET key == keys[i]
             accession == AccessionOf(key)
         IN  IF AccessionCount(keys, accession) = 1
             THEN CategorizeLoop(keys, i + 1, DictSet(unfragmented, accession, key), fragmented)
             ELSE IF ~DictHas(fragmented, accession)
             THEN CategorizeLoop(keys, i + 1, unfragmented,
                                 DictSet(fragmented, accession, <<key>>))
             ELSE CategorizeLoop(keys, i + 1, unfragmented,
                                 DictSet(fragmented, accession,
                                         Append(DictGet(fragmented, accession), key)))
categorize_keys(keys) == CategorizeLoop(keys, 1, <<>>, <<>>)

\* Lines 212-213: the results of the unfragmented accessions, copied.
CopyUnfragmented(unfragmented, results) ==
    [i \in DOMAIN unfragmented |->
        <<unfragmented[i][1], DictGet(results, unfragmented[i][2])>>]
\* Lines 216-222: per fragmented accession, the (key, value) pairs of its keys.
ChunkEntries(fragmented, results) ==
    [i \in DOMAIN fragmented |->
        <<fragmented[i][1],
          [j \in DOMAIN fragmented[i][2] |->
              <<fragmented[i][2][j], DictGet(results, fragmented[i][2][j])>>]>>]

\* (a changed StreamDone: the loop left as soon as no output is waiting)
NothingWaiting == outqueue = <<>>

\* Lines 101-107: the loop over pool.imap_unordered ends when every streamed entry
\* has been taken, processed and yielded.
StreamDone ==
    /\ submitted = Len(archive)
    /\ running = {}
    /\ outqueue = <<>>

\* Line 102: a free worker of the pool takes the next entry of the stream.
Submit ==
    /\ pc = "run_dssp_parallel"
    /\ submitted < Len(archive)
    /\ Cardinality(running) < Processes
    /\ submitted' = submitted + 1
    /\ running' = running \cup {submitted + 1}
    /\ UNCHANGED <<archive, outqueue, excluded_results, unfragmented_keys, fragmented_keys,
                   accession_results, chunked_entries, exception, pc>>
    /\ UNCHANGED <<fuseVars, dsspVars>>

\* A worker ends run_dssp on its entry: its output, or the exception it raised,
\* waits for the loop in the parent.
WorkerFinish(i) ==
    /\ pc = "run_dssp_parallel"
    /\ i \in running
    /\ running' = running \ {i}
    /\ outqueue' = Append(outqueue,
                          IF RunDsspRaises(archive[i]) THEN <<"ValueError", archive[i][3]>>
                          ELSE <<"ok", RunDsspResult(archive[i], ForbiddenCodes, PlddtThres)>>)
    /\ UNCHANGED <<archive, submitted, excluded_results, unfragmented_keys, fragmented_keys,
                   accession_results, chunked_entries, exception, pc>>
    /\ UNCHANGED <<fuseVars, dsspVars>>

\* Lines 102-105: the loop takes the next output. A worker's exception is raised
\* again here; nothing catches it, so run_dssp_parallel and generate_dssp end with it.
Collect ==
    /\ pc = "run_dssp_parallel"
    /\ outqueue # <<>>
    /\ outqueue' = Tail(outqueue)
    /\ IF Head(outqueue)[1] = "ok"
       THEN /\ excluded_results' =
                   DictSet(excluded_results, Head(outqueue)[2][1], Head(outqueue)[2][2])
            /\ UNCHANGED <<pc, exception>>
       ELSE /\ pc' = "raised"
            /\ exception' = "ValueError in run_dssp"
            /\ UNCHANGED excluded_results
    /\ UNCHANGED <<archive, submitted, running, unfragmented_keys, fragmented_keys,
                   accession_results, chunked_entries>>
    /\ UNCHANGED <<fuseVars, dsspVars>>

\* Line 107 and lines 264-265: run_dssp_parallel returns, parse_fragments is called.
ReturnResults ==
    /\ pc = "run_dssp_parallel"
    /\ StreamDone
    /\ pc' = "parse_fragments"
    /\ UNCHANGED <<archive, submitted, running, outqueue, excluded_results, unfragmented_keys,
                   fragmented_keys, accession_results, chunked_entries, exception>>
    /\ UNCHANGED <<fuseVars, dsspVars>>

\* Lines 205-222: the keys are categorized, the unfragmented results copied and the
\* fragmented ones chunked per accession.
ParseCollect ==
    /\ pc = "parse_fragments"
    /\ LET cat == categorize_keys(DictKeys(excluded_results))
       IN  /\ unfragmented_keys' = cat[1]
           /\ fragmented_keys' = cat[2]
           /\ accession_results' = CopyUnfragmented(cat[1], excluded_results)
           /\ chunked_entries' = ChunkEntries(cat[2], excluded_results)
    /\ pc' = "fuse"
    /\ UNCHANGED <<archive, submitted, running, outqueue, excluded_results, exception>>
    /\ UNCHANGED <<fuseVars, dsspVars>>

\* Lines 225-235. With chunks to fuse, line 226 evaluates multiprocessing.Pool():
\* the module only imports the name Pool (line 8), so this raises NameError before
\* any fuse_accession is started. Without chunks, max() of an empty list raises.
ParseFuse ==
    /\ pc = "fuse"
    /\ IF Len(chunked_entries) > 0
       THEN pc' = "raised" /\ exception' = "NameError in parse_fragments"
       ELSE IF Len(accession_results) = 0
       THEN pc' = "raised" /\ exception' = "ValueError in parse_fragments"
       ELSE pc' = "parsed" /\ UNCHANGED exception
    /\ UNCHANGED <<archive, submitted, running, outqueue, excluded_results, unfragmented_keys,
                   fragmented_keys, accession_results, chunked_entries>>
    /\ UNCHANGED <<fuseVars, dsspVars>>

\* Line 237 and lines 266-269: the accession results are returned and pickled.
GenerateReturn ==
    /\ pc = "parsed"
    /\ pc' = "done"
    /\ UNCHANGED <<archive, submitted, running, outqueue, excluded_results, unfragmented_keys,
                   fragmented_keys, accession_results, chunked_entries, exception>>
    /\ UNCHANGED <<fuseVars, dsspVars>>

\* The archives tried: up to MaxModels members in name order, of accessions P1 and
\* P2 and fragments 1..MaxFragments, each either a model whose DSSP codes and pLDDT
\* values agree in number or one with a residue DSSP reports and pLDDT lacks.
Accessions == <<"P1", "P2">>
KeyRank(key) ==
    (CHOOSE a \in DOMAIN Accessions : Accessions[a] = AccessionOf(key)) * (MaxFragments + 1)
        + ModelNumber(key)
Members ==
    {EntryTuple(c[1], BaseName(Accessions[a], n), c[2]) :
        a \in DOMAIN Accessions, n \in 1..MaxFragments,
        c \in {<<<<"H", "-">>, <<PlddtThres + 1, PlddtThres + 1>>>>,
               <<<<"H", "-", "-">>, <<PlddtThres + 1, PlddtThres + 1>>>>}}
Archives ==
    {a \in UNION {[1..k -> Members] : k \in 0..MaxModels} :
        \A i, j \in DOMAIN a : i < j => KeyRank(a[i][3]) < KeyRank(a[j][3])}

Init ==
    /\ archive \in Archives
    /\ submitted = 0
    /\ running = {}
    /\ outqueue = <<>>
    /\ excluded_results = <<>>
    /\ pc = "run_dssp_parallel"
    /\ unfragmented_keys = <<>>
    /\ fragmented_keys = <<>>
    /\ accession_results = <<>>
    /\ chunked_entries = <<>>
    /\ exception = "none"
    /\ FuseIdle
    /\ DsspIdle

Next ==
    \/ Submit
    \/ \E i \in 1..MaxModels : WorkerFinish(i)
    \/ Collect
    \/ ReturnResults
    \/ ParseCollect
    \/ ParseFuse
    \/ GenerateReturn

Spec == Init /\ [][Next]_vars

\* ==================================================== claims on the pipeline
ArchiveKeys == {archive[i][3] : i \in DOMAIN archive}
ResultAccessions == {AccessionOf(excluded_results[i][1]) : i \in DOMAIN excluded_results}
RaisedInRunDssp == pc = "raised" /\ exception = "ValueError in run_dssp"
RaisedInParse == pc = "raised" /\ exception # "ValueError in run_dssp"
ParseEnded == pc \in {"parsed", "done"} \/ RaisedInParse

\* C6: once parse_fragments has ended on a result mapping that is not empty, the
\* output has exactly one entry per distinct accession: an accession with one key
\* has that model's (mask, codes) unchanged, and one with several keys has the
\* result fused from all of its keys (so parse_fragments did not end in an error).
C6_RoutedByKeyCount ==
    (ParseEnded /\ Len(excluded_results) > 0) =>
        /\ pc # "raised"
        /\ Len(accession_results) = Cardinality(ResultAccessions)
        /\ {accession_results[i][1] : i \in DOMAIN accession_results} = ResultAccessions
        /\ \A i \in DOMAIN excluded_results :
               AccessionCount(DictKeys(excluded_results), AccessionOf(excluded_results[i][1])) = 1
                   => DictGet(accession_results, AccessionOf(excluded_results[i][1]))
                          = excluded_results[i][2]

\* C8: the groups handed to fusion are complete: whenever parse_fragments holds a
\* chunk for an accession, the result of every archive member of that accession has
\* been produced by run_dssp, stored in the result mapping and put in the chunk.
C8_GroupingBarrier ==
    \A g \in DOMAIN chunked_entries :
        \A i \in DOMAIN archive :
            AccessionOf(archive[i][3]) = chunked_entries[g][1] =>
                /\ DictHas(excluded_results, archive[i][3])
                /\ DictGet(excluded_results, archive[i][3])
                       = RunDsspResult(archive[i], ForbiddenCodes, PlddtThres)[2]
                /\ <<archive[i][3], DictGet(excluded_results, archive[i][3])>>
                       \in Range(chunked_entries[g][2])
\* parse_fragments is about to fuse a group whose results the workers delivered in
\* another order than the stream's.
C8_Witness ==
    /\ pc = "fuse"
    /\ \E g \in DOMAIN chunked_entries :
           \E i, j \in DOMAIN chunked_entries[g][2] :
               /\ i < j
               /\ KeyRank(chunked_entries[g][2][i][1]) > KeyRank(chunked_entries[g][2][j][1])

\* C9: a model whose processing fails is left out and the batch goes on: once
\* run_dssp_parallel has ended it has returned a mapping that holds the result of
\* exactly the models that did not fail.
C9_FailureConfined ==
    pc # "run_dssp_parallel" =>
        \A i \in DOMAIN archive :
            IF RunDsspRaises(archive[i])
            THEN ~DictHas(excluded_results, archive[i][3])
            ELSE ~RaisedInRunDssp /\ DictHas(excluded_results, archive[i][3])

\* ================================================== claims on fuse_accession
\* What the specification says of one fragment (sections 4.4 and 8).
FragmentStart(entry) == stride * (ModelNumber(EntryName(entry)) - 1)
FragmentEnd(entry) == FragmentStart(entry) + Len(EntryMask(entry))
TotalLength == Max({FragmentEnd(args[2][k]) : k \in DOMAIN args[2]})
\* round(x) of a number of halves, as Python rounds (ties to even).
RoundHalves(h) ==
    IF h % 2 = 0 THEN h \div 2
    ELSE IF (h \div 2) % 2 = 0 THEN h \div 2 ELSE (h \div 2) + 1
SpecTrimAmount == RoundHalves(stride * trim_factor.halves)
\* The local indices (0-based) the fragment is to contribute.
SpecKept(entry) ==
    LET len == Len(EntryMask(entry))
        t == SpecTrimAmount
        lo == IF FragmentStart(entry) = 0 THEN 0 ELSE t
        hi == IF FragmentStart(entry) = 0 THEN len - t
              ELSE IF FragmentEnd(entry) = TotalLength THEN len ELSE len - t
    IN  {i \in 0..(len - 1) : lo <= i /\ i < hi}
\* The entries whose trimmed range holds the global position p.
Covering(p) == {k \in DOMAIN args[2] : (p - FragmentStart(args[2][k])) \in SpecKept(args[2][k])}
ValueAt(k, p) == EntryMask(args[2][k])[p - FragmentStart(args[2][k]) + 1]

Terminated == fpc \in {"returned", "TypeError", "ValueError"}
IntTrim == fpc # "call" /\ ~trim_amount.float

\* The local indices iteration k kept, and where its slice went.
CodeKept(k) == {i \in 0..(Len(EntryMask(args[2][k])) - 1) :
                    locals[k].kept_lo <= i /\ i < locals[k].kept_lo + locals[k].kept_len}

\* C1: every fragment an iteration has handled contributed exactly the sub-range
\* [0, len - t), [t, len) or [t, len - t) of its residues (first, last, interior),
\* written at fragment_start + the first kept index, for every int trim_amount
\* t >= 0, t = 0 included.
C1_TrimmedSubrange ==
    IntTrim =>
        \A k \in 1..done_entries :
            /\ CodeKept(k) = SpecKept(args[2][k])
            /\ CodeKept(k) # {} =>
                   locals[k].trimmed_starting_idx
                       = FragmentStart(args[2][k]) + locals[k].kept_lo

\* C2: the mask and the codes fuse_accession returns both have length
\* total_length = max fragment_end.
C2_TotalLength ==
    fpc = "returned" =>
        /\ Len(output[2][1]) = TotalLength
        /\ Len(output[2][2]) = TotalLength

\* C3: after fuse_accession, at every global position inside the trimmed range of
\* at least one fragment the fused mask is the AND of the values of all the
\* fragments whose trimmed range holds the position.
C3_OverlapAnd ==
    fpc = "returned" =>
        \A p \in 0..(Len(output[2][1]) - 1) :
            Covering(p) # {} =>
                output[2][1][p + 1] = (\A k \in Covering(p) : ValueAt(k, p))
\* Two trimmed ranges overlap at a position where the fragments disagree.
C3_Witness ==
    /\ fpc = "returned"
    /\ \E p \in 0..(Len(output[2][1]) - 1) :
           \E j, k \in Covering(p) : j # k /\ ValueAt(j, p) /\ ~ValueAt(k, p)

\* C4: the fused mask does not depend on the order of the group's entries: the call
\* ends the same way as on the same entries in ascending fragment order and, when
\* it returns, returns the same exclusion mask. The groups tried hold every order
\* of every set of entries, so any two orders of one group agree.
Reordered(es) == {[i \in DOMAIN es |-> es[f[i]]] : f \in Permutations(DOMAIN es)}
Ascending(es) ==
    CHOOSE q \in Reordered(es) :
        \A i, j \in DOMAIN q :
            i < j => ModelNumber(EntryName(q[i])) < ModelNumber(EntryName(q[j]))
C4_OrderIndependent ==
    Terminated =>
        LET r == FuseRun(Ascending(args[2]), stride, trim_factor)
        IN  /\ (r.kind = "returned") = (fpc = "returned")
            /\ fpc = "returned" => r.hcf = output[2][1]
\* A returned fusion whose structure codes another order would have changed.
C4_Witness ==
    /\ fpc = "returned"
    /\ \E q \in Reordered(args[2]) :
           /\ q # args[2]
           /\ FuseRun(q, stride, trim_factor).codes # output[2][2]

\* C5: no fused result is returned for a group with a fragment whose start is
\* negative or whose length is less than twice trim_amount.
C5_InvalidOffsetsRejected ==
    fpc = "returned" =>
        \A k \in DOMAIN args[2] :
            /\ FragmentStart(args[2][k]) >= 0
            /\ 2 * IntOf(trim_amount) <= Len(EntryMask(args[2][k]))

\* C10: for every fragment and every int trim_amount >= 0 the destination window
\* is inside the accession array and the fragment's own range, is not reversed,
\* and is as long as the slice written to it.
C10_WindowAligned ==
    IntTrim =>
        \A k \in 1..done_entries :
            LET loc == locals[k]
            IN  /\ 0 <= loc.trimmed_starting_idx
                /\ loc.trimmed_starting_idx <= loc.trimmed_ending_idx
                /\ loc.trimmed_ending_idx <= Len(total_high_confidence_forbidden)
                /\ loc.trimmed_ending_idx - loc.trimmed_starting_idx
                       = Len(loc.trimmed_hcf_mask)
                /\ loc.starting_idx <= loc.trimmed_starting_idx
                /\ loc.trimmed_ending_idx <= loc.ending_idx

====
